---- MODULE Spec2Model ----
(***************************************************************************)
(* A model of the laraAssistant backend: the chat orchestrator with its    *)
(* vector memory store (app/routes/ai_chat.py, app/services), the HTTP     *)
(* wiring of the protected routes, and the deferred delivery dispatcher    *)
(* (app/routes/schedule.py, app/utils/background_jobs.py).                 *)
(*                                                                         *)
(* Handlers are modelled as the functions they are: an action per handler, *)
(* taking the request and the identity FastAPI hands it (current_user).    *)
(* The route wiring that resolves that identity from the HTTP request is   *)
(* the separate action HttpRequest.  External collaborators (auth service, *)
(* embedding and completion providers, Qdrant, MongoDB) are inputs: their  *)
(* answers are drawn with \E, a failing call is a member of `faults`.      *)
(***************************************************************************)
EXTENDS Integers, Sequences, FiniteSets, TLC

(***************************************************************************)
(* Bounds of the model.                                                    *)
(***************************************************************************)
MaxPoints == 4      \* memory points in the vector store
MaxLogs   == 2      \* AiChatLog records
MaxFaults == 1      \* failing external calls within one request
MaxTime   == 6      \* clock values 0..MaxTime

(***************************************************************************)
(* Values.  User ids are strings ("" is a missing id), conversation ids,   *)
(* point ids and vectors are integers (0 is None / the empty string).      *)
(***************************************************************************)
Users == {"A", "B"}
NoUser == ""
NoConv == 0
CallerConvIds == {1}
UuidBase == 10
NoVector == 0
NoData == "none"

Identities ==
    { [userId |-> "A", id |-> NoUser],
      [userId |-> NoUser, id |-> "B"],
      [userId |-> NoUser, id |-> NoUser] }

Messages == {"hi"}
CompletionText == "ok"

EmptyMeta == [k \in {} |-> NoUser]
Metadatas ==
    { EmptyMeta,
      [k \in {"userId", "conversationId"} |-> IF k = "userId" THEN "B" ELSE 1] }

Features == {"ai_chat", "voice_chat", "scheduling"}

VARIABLES
    points,       \* the Qdrant collection: a set of [id, vector, payload]
    chatLogs,     \* the AiChatLog collection, in insertion order
    nextUuid,     \* uuid4: the next fresh identifier
    now,          \* the clock (datetime.utcnow / datetime.now)
    response,     \* the response of the last request
    fx,           \* what the last request did (calls made, points written)
    jobs,         \* the ScheduledPost / ScheduledEmail documents, by document id
    notifications,\* the Notification collection, in insertion order
    queue,        \* the broker: delayed messages [kind, job, eta]
    workers,      \* each worker's run of _publish_social_post_async /
                  \* _send_scheduled_email_async: position and local document
    cancel,       \* the cancel request in flight: position and local document
    qdrant        \* the Qdrant server's collections and the QdrantService
                  \* calls in flight, one per process

chatVars == <<points, chatLogs>>
jobVars == <<jobs, notifications, queue, workers, cancel>>
vars == <<points, chatLogs, nextUuid, now, response, fx, jobs, notifications,
          queue, workers, cancel, qdrant>>

(***************************************************************************)
(* app/utils/response.py and app/core/error_handler.py: response bodies.   *)
(* `keys` is the set of top-level keys of the JSON body.                   *)
(***************************************************************************)
NoBody ==
    [feature |-> NoData, conversationId |-> NoConv, echo |-> NoData,
     responseText |-> NoData, memoryStored |-> FALSE, total |-> 0,
     scheduleId |-> NoConv, jobStatus |-> NoData, conversations |-> <<>>]

send_response(op, status_code, message, data) ==
    [op |-> op, status |-> status_code,
     keys |-> {"statusCode", "message", "data"},
     statusCode |-> status_code, message |-> message, data |-> data]

send_error(op, status_code, message, data) ==
    [op |-> op, status |-> status_code,
     keys |-> {"statusCode", "message", "data"},
     statusCode |-> status_code, message |-> message, data |-> data]

http_exception_handler(op, status_code, detail) ==
    [op |-> op, status |-> status_code,
     keys |-> {"success", "message"},
     statusCode |-> 0, message |-> detail, data |-> NoBody]

validation_exception_handler(op) ==
    [op |-> op, status |-> 422,
     keys |-> {"success", "message", "errors"},
     statusCode |-> 0, message |-> "Validation failed", data |-> NoBody]

NoFx ==
    [caller |-> NoUser, conv |-> NoConv, header |-> FALSE,
     auth |-> 0, sub |-> 0, granted |-> FALSE, embed |-> 0, search |-> 0, scroll |-> 0,
     completion |-> 0, store |-> 0, insert |-> 0,
     newPoints |-> {}, searchRes |-> <<>>, scrollRes |-> <<>>,
     context |-> <<>>, request |-> <<>>, scheduledAt |-> 0, validatedAt |-> 0,
     dbError |-> FALSE, failed |-> {}, recent |-> <<>>,
     tempCreated |-> FALSE, tempLeft |-> FALSE]

(***************************************************************************)
(* app/services/auth_service.py.  A reply of the auth service is           *)
(* [err, http, statusCode, hasData, data]: err is a network error, http    *)
(* the HTTP status, statusCode / data the fields of the JSON body.         *)
(***************************************************************************)
NoIdentity == [userId |-> NoUser, id |-> NoUser]
NoReply == [ok |-> FALSE, data |-> NoIdentity]

AuthReply(err, http, statusCode, hasData, data) ==
    [err |-> err, http |-> http, statusCode |-> statusCode,
     hasData |-> hasData, data |-> data]

SubscriptionReplies ==
    { AuthReply(TRUE, 0, 0, FALSE, NoIdentity),
      AuthReply(FALSE, 200, 200, TRUE, NoIdentity),
      AuthReply(FALSE, 200, 403, TRUE, NoIdentity) }

JwtReplies ==
    { AuthReply(TRUE, 0, 0, FALSE, NoIdentity),
      AuthReply(FALSE, 200, 200, TRUE, [userId |-> "A", id |-> NoUser]),
      AuthReply(FALSE, 200, 200, FALSE, NoIdentity),
      AuthReply(FALSE, 401, 401, FALSE, NoIdentity) }

verify_jwt_token(reply) ==
    IF reply.err THEN NoReply
    ELSE IF reply.http = 200
         THEN IF reply.statusCode = 200 /\ reply.hasData
              THEN [ok |-> TRUE, data |-> reply.data]
              ELSE NoReply
         ELSE NoReply

(* A check that trusts the HTTP status and does not look at the body's     *)
(* statusCode: the fault C19 guards against.                               *)
verify_ignoring_body(reply) ==
    IF reply.err THEN NoReply
    ELSE IF reply.http = 200 /\ reply.hasData
         THEN [ok |-> TRUE, data |-> reply.data]
         ELSE NoReply

verify_user_subscription(reply) ==
    IF reply.err THEN NoReply
    ELSE IF reply.http = 200
         THEN IF reply.statusCode = 200 /\ reply.hasData
              THEN [ok |-> TRUE, data |-> reply.data]
              ELSE NoReply
         ELSE NoReply

(* An Authorization header: absent, not a bearer header, "Bearer " with an *)
(* empty token, or "Bearer <token>".                                       *)
NoHeader == "absent"
Headers == {NoHeader, "Basic x", "Bearer ", "Bearer tok"}

StartsWithBearer(header) == header \in {"Bearer ", "Bearer tok"}
TokenOf(header) == IF header = "Bearer tok" THEN "tok" ELSE ""

auth_service_get_current_user(authorization_header, reply) ==
    IF authorization_header = NoHeader \/ ~StartsWithBearer(authorization_header)
    THEN NoReply
    ELSE IF TokenOf(authorization_header) = ""
         THEN NoReply
         ELSE verify_jwt_token(reply)

(***************************************************************************)
(* The auth dependency of the routers (ai_chat.py:37-46, the same text in  *)
(* voice_chat.py:17-26 and schedule.py:56-65).  The parameter              *)
(* `authorization` is declared as Depends(lambda: None): FastAPI fills it  *)
(* with the value of that callable, whatever the request carries.          *)
(***************************************************************************)
AuthorizationDependency(header) == NoHeader

get_current_user(authorization, reply) ==
    IF authorization = NoHeader
    THEN [ok |-> FALSE, detail |-> "Authorization header required",
          user |-> NoIdentity, verified |-> 0]
    ELSE LET user == auth_service_get_current_user(authorization, reply) IN
         IF ~user.ok
         THEN [ok |-> FALSE, detail |-> "Invalid or expired token",
               user |-> NoIdentity, verified |-> 1]
         ELSE [ok |-> TRUE, detail |-> NoData, user |-> user.data,
               verified |-> 1]

UserIdOf(current_user) ==
    IF current_user.userId # NoUser THEN current_user.userId
    ELSE current_user.id

(***************************************************************************)
(* app/services/embedding_service.py and ai_service.py.  A provider        *)
(* failure makes generate_embedding return None (NoVector).                *)
(***************************************************************************)
ApologyText == "sorry"
IsBlank(text) == text \in {"", " "}

ProviderVector(text) ==
    IF text = "hi" THEN 1 ELSE IF text = CompletionText THEN 2 ELSE 3

generate_embedding(text, providerFails) ==
    IF providerFails THEN NoVector ELSE ProviderVector(text)

get_embedding(text, providerFails) ==
    IF IsBlank(text) THEN NoVector
    ELSE generate_embedding(text, providerFails)

ProviderUsage == [prompt_tokens |-> 2, completion_tokens |-> 3, total_tokens |-> 5]

chat_completion(message, context, providerFails) ==
    IF providerFails
    THEN [text |-> ApologyText,
          token_usage |-> [prompt_tokens |-> 0, completion_tokens |-> 15,
                           total_tokens |-> 15],
          model |-> "error"]
    ELSE [text |-> CompletionText, token_usage |-> ProviderUsage,
          model |-> "gpt-3.5-turbo"]

(***************************************************************************)
(* app/services/qdrant_service.py.  The collection is the set `points`;    *)
(* client.search ranks by score and cuts at the threshold and the limit,   *)
(* client.scroll pages in point-id order.  Scores are percentages.         *)
(***************************************************************************)
Score(query, vector) == IF query = vector THEN 100 ELSE 50

Merge(payload, metadata) ==
    [k \in (DOMAIN payload) \cup (DOMAIN metadata) |->
        IF k \in DOMAIN metadata THEN metadata[k] ELSE payload[k]]

(* store_embedding up to the upsert: the point it builds.                  *)
BuildPoint(point_id, user_id, text, embedding, conversation_id, source_type, metadata, createdAt) ==
    LET payload == [k \in {"userId", "text", "conversationId", "sourceType",
                           "createdAt"} |->
                       CASE k = "userId" -> user_id
                         [] k = "text" -> text
                         [] k = "conversationId" -> conversation_id
                         [] k = "sourceType" -> source_type
                         [] OTHER -> createdAt]
    IN [id |-> point_id, vector |-> embedding,
        payload |-> IF DOMAIN metadata # {} THEN Merge(payload, metadata)
                    ELSE payload]

(* A filter that forgets the owner: the fault C1 guards against.           *)
SearchFilterAnyOwner(p, user_id, conversation_id, source_type) ==
    /\ (conversation_id # NoConv => p.payload["conversationId"] = conversation_id)
    /\ (source_type # NoData => p.payload["sourceType"] = source_type)

(* The filter of search_similar: userId, and conversationId / sourceType   *)
(* when given.                                                             *)
SearchFilter(p, user_id, conversation_id, source_type) ==
    /\ p.payload["userId"] = user_id
    /\ (conversation_id # NoConv => p.payload["conversationId"] = conversation_id)
    /\ (source_type # NoData => p.payload["sourceType"] = source_type)

(* The filter of get_conversation_context: userId and conversationId.      *)
ScrollFilter(p, user_id, conversation_id) ==
    /\ p.payload["userId"] = user_id
    /\ p.payload["conversationId"] = conversation_id

RECURSIVE RankByScore(_, _)
RankByScore(S, query) ==
    IF S = {} THEN <<>>
    ELSE LET best == CHOOSE x \in S : \A y \in S :
                        \/ Score(query, x.vector) > Score(query, y.vector)
                        \/ /\ Score(query, x.vector) = Score(query, y.vector)
                           /\ x.id <= y.id
         IN <<best>> \o RankByScore(S \ {best}, query)

RECURSIVE ById(_)
ById(S) ==
    IF S = {} THEN <<>>
    ELSE LET first == CHOOSE x \in S : \A y \in S : x.id <= y.id
         IN <<first>> \o ById(S \ {first})

Take(seq, n) == SubSeq(seq, 1, IF Len(seq) < n THEN Len(seq) ELSE n)

Hit(p, query) == [id |-> p.id, score |-> Score(query, p.vector), payload |-> p.payload]
Entry(p) == [id |-> p.id, payload |-> p.payload]

search_similar(query_embedding, user_id, limit, score_threshold, conversation_id, source_type) ==
    LET matching == {p \in points :
                        /\ SearchFilter(p, user_id, conversation_id, source_type)
                        /\ Score(query_embedding, p.vector) >= score_threshold}
        ranked == Take(RankByScore(matching, query_embedding), limit)
    IN [i \in 1..Len(ranked) |-> Hit(ranked[i], query_embedding)]

(* sorted(points, key=createdAt, reverse=True): newest first; the sort is  *)
(* stable, so equal timestamps keep the order of the page.                 *)
RECURSIVE SortedByCreatedAtReverse(_)
SortedByCreatedAtReverse(page) ==
    IF page = <<>> THEN <<>>
    ELSE LET i == CHOOSE i \in 1..Len(page) : \A j \in 1..Len(page) :
                     \/ page[i].payload["createdAt"] > page[j].payload["createdAt"]
                     \/ /\ page[i].payload["createdAt"] = page[j].payload["createdAt"]
                        /\ i <= j
             rest == [k \in 1..(Len(page) - 1) |->
                         IF k < i THEN page[k] ELSE page[k + 1]]
         IN <<page[i]>> \o SortedByCreatedAtReverse(rest)

get_conversation_context(user_id, conversation_id, limit) ==
    LET matching == {p \in points : ScrollFilter(p, user_id, conversation_id)}
        page == Take(ById(matching), limit)
        sorted_points == SortedByCreatedAtReverse(page)
    IN [i \in 1..Len(sorted_points) |-> Entry(sorted_points[i])]

(***************************************************************************)
(* app/routes/ai_chat.py: chat_text.  The handler is one try block; a      *)
(* raising call ends it with the 500 of the except clause, and what was    *)
(* written before stays written.                                           *)
(***************************************************************************)
SearchLimit == 5
ScoreThreshold == 70
ContextLimit == 10
RecentTurns == 5
RelevantLabel == "Relevant context from memory:"
RecentLabel == "Recent conversation:"

(* The clock readings of one request: createdAt of the two points and of  *)
(* the log record are successive values of utcnow().                      *)
HandlerTime == 3

FaultPoints ==
    {"embed", "search", "scroll", "completion", "store_user", "embed_ai",
     "store_ai", "insert"}
FaultSets == {F \in SUBSET FaultPoints : Cardinality(F) <= MaxFaults}

ChatTextRequest(message, conversationId, metadata, saveToMemory) ==
    [message |-> message, conversationId |-> conversationId,
     metadata |-> metadata, saveToMemory |-> saveToMemory]

LastN(seq, n) ==
    IF Len(seq) <= n THEN seq ELSE SubSeq(seq, Len(seq) - n + 1, Len(seq))

Texts(entries) == [i \in 1..Len(entries) |-> entries[i].payload["text"]]

(* conversation_context[-5:]                                               *)
RecentBlock(conversation_context) == LastN(conversation_context, RecentTurns)

(* An assembly that writes both labels whatever it was given: the fault    *)
(* C16 guards against.                                                     *)
AssembleContextBothLabels(context_memories, conversation_context) ==
    <<RelevantLabel>> \o Texts(context_memories)
    \o <<RecentLabel>> \o Texts(RecentBlock(conversation_context))

AssembleContext(context_memories, conversation_context) ==
    (IF context_memories # <<>>
     THEN <<RelevantLabel>> \o Texts(context_memories) ELSE <<>>)
    \o
    (IF conversation_context # <<>>
     THEN <<RecentLabel>> \o Texts(RecentBlock(conversation_context))
     ELSE <<>>)

(* A write that keeps only the newest log record: the rewrite of the log   *)
(* C26 guards against.                                                     *)
OutcomeRewritingLog(resp, pts, logs, uuid, clock, effects) ==
    [response |-> resp, points |-> pts, chatLogs |-> LastN(logs, 1),
     nextUuid |-> uuid, now |-> clock, fx |-> effects]

Outcome(resp, pts, logs, uuid, clock, effects) ==
    [response |-> resp, points |-> pts, chatLogs |-> logs, nextUuid |-> uuid,
     now |-> clock, fx |-> effects]

ChatError500(op) == send_error(op, 500, "Failed to process chat", NoBody)

(* Lines 126-187: the two memory writes, the log record, the response.     *)
ChatTextPersist(op, request, user_id, conversation_id, uuid1, user_embedding, ai_response, faults, fxC) ==
    LET save == request.saveToMemory
        userPoint == BuildPoint(uuid1, user_id, request.message, user_embedding,
                         conversation_id, "user_message",
                         Merge([k \in {"role"} |-> "user"], request.metadata),
                         now)
        storeUserRaises == user_embedding = NoVector \/ "store_user" \in faults
        ai_embedding == get_embedding(ai_response.text, "embed_ai" \in faults)
        aiPoint == BuildPoint(uuid1 + 1, user_id, ai_response.text, ai_embedding,
                       conversation_id, "ai_response",
                       [k \in {"role"} |-> "assistant"], now + 1)
        storeAiRaises == ai_embedding = NoVector \/ "store_ai" \in faults
        fxD == [fxC EXCEPT !.store = 1, !.failed = @ \cup {"store_user"}]
        fxS == [fxC EXCEPT !.store = 2, !.embed = 2, !.newPoints = {userPoint}]
        fxE == [fxS EXCEPT !.failed = @ \cup {"store_ai"}
                               \cup (IF ai_embedding = NoVector
                                     THEN {"embed_ai"} ELSE {})]
        fxF == [fxS EXCEPT !.newPoints = {userPoint, aiPoint}]
        fxG == IF save THEN fxF ELSE fxC
        written == IF save THEN points \cup {userPoint, aiPoint} ELSE points
        uuid2 == IF save THEN uuid1 + 2 ELSE uuid1
        memory_stored == save
        chat_log == [userId |-> user_id, conversationId |-> conversation_id,
                     userMessage |-> request.message,
                     aiResponse |-> ai_response.text,
                     tokenUsage |-> ai_response.token_usage,
                     model |-> ai_response.model, createdAt |-> now + 2,
                     metadata |-> request.metadata]
        response_data == [NoBody EXCEPT !.conversationId = conversation_id,
                             !.echo = request.message,
                             !.responseText = ai_response.text,
                             !.total = ai_response.token_usage.total_tokens,
                             !.memoryStored = memory_stored]
    IN IF save /\ storeUserRaises
       THEN Outcome(ChatError500(op), points, chatLogs, uuid1 + 1, now + HandlerTime, fxD)
       ELSE IF save /\ storeAiRaises
       THEN Outcome(ChatError500(op), points \cup {userPoint}, chatLogs,
                    uuid1 + 2, now + HandlerTime, fxE)
       ELSE IF "insert" \in faults
       THEN Outcome(ChatError500(op), written, chatLogs, uuid2, now + HandlerTime,
                    [fxG EXCEPT !.insert = 1, !.failed = @ \cup {"insert"}])
       ELSE Outcome(send_response(op, 200, "Chat completed successfully",
                                  response_data),
                    written, Append(chatLogs, chat_log), uuid2, now + HandlerTime,
                    [fxG EXCEPT !.insert = 1])

(* Lines 83-124: conversation id, embedding, retrieval, context, completion *)
ChatTextRetrieve(op, request, user_id, faults, fx1) ==
    LET minted == request.conversationId = NoConv
        conversation_id == IF minted THEN nextUuid ELSE request.conversationId
        uuid1 == IF minted THEN nextUuid + 1 ELSE nextUuid
        user_embedding == get_embedding(request.message, "embed" \in faults)
        searchRaises == /\ request.saveToMemory
                        /\ (user_embedding = NoVector \/ "search" \in faults)
        context_memories ==
            IF request.saveToMemory /\ ~searchRaises
            THEN search_similar(user_embedding, user_id, SearchLimit,
                                ScoreThreshold, conversation_id, NoData)
            ELSE <<>>
        fxA == [fx1 EXCEPT !.conv = conversation_id, !.embed = 1,
                           !.search = IF request.saveToMemory THEN 1 ELSE 0,
                           !.searchRes = context_memories,
                           !.failed = (IF user_embedding = NoVector
                                       THEN {"embed"} ELSE {})
                                      \cup (IF searchRaises
                                            THEN {"search"} ELSE {})]
        scrollRaises == "scroll" \in faults
        conversation_context ==
            IF scrollRaises THEN <<>>
            ELSE get_conversation_context(user_id, conversation_id, ContextLimit)
        fxB == [fxA EXCEPT !.scroll = 1, !.scrollRes = conversation_context,
                           !.failed = @ \cup (IF scrollRaises
                                              THEN {"scroll"} ELSE {})]
        context_text == AssembleContext(context_memories, conversation_context)
        ai_response == chat_completion(request.message, context_text,
                                       "completion" \in faults)
        fxC == [fxB EXCEPT !.completion = 1, !.context = context_text,
                           !.recent = RecentBlock(conversation_context),
                           !.failed = @ \cup (IF "completion" \in faults
                                              THEN {"completion"} ELSE {})]
    IN IF searchRaises
       THEN Outcome(ChatError500(op), points, chatLogs, uuid1, now + HandlerTime, fxA)
       ELSE IF scrollRaises
       THEN Outcome(ChatError500(op), points, chatLogs, uuid1, now + HandlerTime, fxB)
       ELSE ChatTextPersist(op, request, user_id, conversation_id, uuid1,
                            user_embedding, ai_response, faults, fxC)

(* Lines 65-81 and the dispatch to the rest of the handler.                *)
chat_text_result(request, current_user, subReply, faults) ==
    LET op == "chat_text"
        user_id == UserIdOf(current_user)
        fx0 == [NoFx EXCEPT !.caller = user_id]
        subscription == verify_user_subscription(subReply)
        fx1 == [fx0 EXCEPT !.sub = 1, !.granted = subscription.ok]
    IN IF user_id = NoUser
       THEN Outcome(send_error(op, 400, "Invalid user data", NoBody),
                    points, chatLogs, nextUuid, now, fx0)
       ELSE IF ~subscription.ok
       THEN Outcome(send_error(op, 403, "Subscription required for AI chat",
                               [NoBody EXCEPT !.feature = "ai_chat"]),
                    points, chatLogs, nextUuid, now, fx1)
       ELSE ChatTextRetrieve(op, request, user_id, faults, fx1)

Apply(r) ==
    /\ response' = r.response
    /\ points' = r.points
    /\ chatLogs' = r.chatLogs
    /\ nextUuid' = r.nextUuid
    /\ now' = r.now
    /\ fx' = r.fx
    /\ UNCHANGED <<jobVars, qdrant>>

MaxUuids == 6
ChatBounded(saveToMemory) ==
    /\ saveToMemory => Cardinality(points) + 2 <= MaxPoints
    /\ Len(chatLogs) < MaxLogs
    /\ nextUuid + 3 <= UuidBase + MaxUuids
    /\ now + HandlerTime <= MaxTime

chat_text ==
    \E message \in Messages, conversationId \in {NoConv} \cup CallerConvIds,
       metadata \in Metadatas, saveToMemory \in BOOLEAN,
       current_user \in Identities, subReply \in SubscriptionReplies,
       faults \in FaultSets :
        /\ ChatBounded(saveToMemory)
        /\ Apply(chat_text_result(
               ChatTextRequest(message, conversationId, metadata, saveToMemory),
               current_user, subReply, faults))

(***************************************************************************)
(* get_user_conversations (ai_chat.py:292-338): the caller's newest        *)
(* `limit` log records, grouped by conversation.                           *)
(***************************************************************************)
Limits == {1, 20}

(* .sort([("createdAt", -1)]): newest first.                               *)
RECURSIVE SortByCreatedAtDesc(_)
SortByCreatedAtDesc(logs) ==
    IF logs = <<>> THEN <<>>
    ELSE LET i == CHOOSE i \in 1..Len(logs) : \A j \in 1..Len(logs) :
                     \/ logs[i].createdAt > logs[j].createdAt
                     \/ /\ logs[i].createdAt = logs[j].createdAt
                        /\ i <= j
             rest == [k \in 1..(Len(logs) - 1) |->
                         IF k < i THEN logs[k] ELSE logs[k + 1]]
         IN <<logs[i]>> \o SortByCreatedAtDesc(rest)

FindLogs(user_id, limit) ==
    LET IsOf(log) == log.userId = user_id
    IN Take(SortByCreatedAtDesc(SelectSeq(chatLogs, IsOf)), limit)

(* sum(log.tokenUsage.values())                                            *)
SumOfValues(tokenUsage) ==
    tokenUsage.prompt_tokens + tokenUsage.completion_tokens
    + tokenUsage.total_tokens

(* The loop of lines 307-321 over chat_logs[1..n].                         *)
RECURSIVE GroupByConversation(_, _)
GroupByConversation(chat_logs, n) ==
    IF n = 0 THEN <<>>
    ELSE LET conversations == GroupByConversation(chat_logs, n - 1)
             log == chat_logs[n]
             known == {k \in 1..Len(conversations) :
                          conversations[k].conversationId = log.conversationId}
             fresh == [conversationId |-> log.conversationId,
                       lastMessage |-> log.userMessage,
                       lastResponse |-> log.aiResponse,
                       lastActivity |-> log.createdAt,
                       messageCount |-> 0, totalTokens |-> 0]
             entered == IF known = {} THEN Append(conversations, fresh)
                        ELSE conversations
             k == CHOOSE k \in 1..Len(entered) :
                     entered[k].conversationId = log.conversationId
         IN [entered EXCEPT
                ![k].messageCount = @ + 1,
                ![k].totalTokens = @ + SumOfValues(log.tokenUsage)]

(* conversation_list.sort(key=lastActivity, reverse=True)                  *)
RECURSIVE SortByLastActivityDesc(_)
SortByLastActivityDesc(list) ==
    IF list = <<>> THEN <<>>
    ELSE LET i == CHOOSE i \in 1..Len(list) : \A j \in 1..Len(list) :
                     \/ list[i].lastActivity > list[j].lastActivity
                     \/ /\ list[i].lastActivity = list[j].lastActivity
                        /\ i <= j
             rest == [k \in 1..(Len(list) - 1) |->
                         IF k < i THEN list[k] ELSE list[k + 1]]
         IN <<list[i]>> \o SortByLastActivityDesc(rest)

get_user_conversations_result(limit, current_user, findRaises) ==
    LET op == "get_user_conversations"
        user_id == UserIdOf(current_user)
        chat_logs == FindLogs(user_id, limit)
        conversation_list ==
            SortByLastActivityDesc(GroupByConversation(chat_logs, Len(chat_logs)))
        effects == [NoFx EXCEPT !.caller = user_id, !.request = <<op, limit>>]
    IN IF findRaises
       THEN [response |-> send_error(op, 500, "Failed to retrieve conversations",
                                     NoBody),
             fx |-> [effects EXCEPT !.dbError = TRUE]]
       ELSE [response |-> send_response(op, 200,
                              "Conversations retrieved successfully",
                              [NoBody EXCEPT !.conversations = conversation_list]),
             fx |-> effects]

get_user_conversations ==
    \E limit \in Limits, current_user \in Identities, findRaises \in BOOLEAN :
        LET r == get_user_conversations_result(limit, current_user, findRaises)
        IN /\ response' = r.response
           /\ fx' = r.fx
           /\ UNCHANGED <<points, chatLogs, nextUuid, now>>
           /\ UNCHANGED <<jobVars, qdrant>>

(***************************************************************************)
(* Lines 107-117 of chat_text on their own: the context assembly applied   *)
(* to any similar hits and any recent turns.                               *)
(***************************************************************************)
MaxHits == 2        \* similar hits handed to the assembly
MaxTurns == 3       \* recent turns handed to the assembly

ContextEntry(text) == [id |-> NoConv, payload |-> [k \in {"text"} |-> text]]

EntrySeqs(n) ==
    UNION {[1..k -> {ContextEntry("hi"), ContextEntry(CompletionText)}] :
              k \in 0..n}

assemble_context ==
    \E context_memories \in EntrySeqs(MaxHits),
       conversation_context \in EntrySeqs(MaxTurns) :
        /\ response' = send_response("assemble_context", 0, NoData, NoBody)
        /\ fx' = [NoFx EXCEPT
                     !.searchRes = context_memories,
                     !.scrollRes = conversation_context,
                     !.context = AssembleContext(context_memories,
                                                 conversation_context)]
        /\ UNCHANGED <<qdrant, points, chatLogs, nextUuid, now>>
        /\ UNCHANGED <<jobVars, qdrant>>

(***************************************************************************)
(* The voice uploads: chat_voice_upload (app/routes/ai_chat.py) and        *)
(* upload_voice_message (app/routes/voice_chat.py).  An upload is one of:  *)
(* a file of the wrong type, a file over the size limit, a file whose      *)
(* read() raises, or audio with some speech in it.  The temporary file is  *)
(* named by the request, so of the file system the model keeps, per        *)
(* request, whether the file was created and whether it is still there     *)
(* when the handler returns (os.unlink on the handler's own file is taken  *)
(* to succeed).                                                            *)
(***************************************************************************)
Uploads == {"bad_type", "too_large", "read_raises", "silence", "speech"}

Strip(text) == IF text = " " THEN "" ELSE text

SpeechOf(upload) == IF upload = "speech" THEN "hi" ELSE " "

(* ai_service.transcribe_audio: the stripped text, None on any failure.    *)
transcribe_audio(upload, providerFails) ==
    IF providerFails THEN NoData ELSE Strip(SpeechOf(upload))

VoiceMetadata ==
    [k \in {"sourceType", "originalFilename"} |->
        IF k = "sourceType" THEN "voice_upload" ELSE "a.wav"]

(* The file is there from NamedTemporaryFile(delete=False) on.             *)
TempCreated(r) == [r EXCEPT !.fx.tempCreated = TRUE, !.fx.tempLeft = TRUE]

(* A cleanup written as the last statement of the try block, which the     *)
(* early returns and the exceptions pass by: the fault C17 guards against. *)
CleanupAtEndOfTry(r) ==
    IF r.response.status = 200 THEN [r EXCEPT !.fx.tempLeft = FALSE] ELSE r

(* finally: if temp_file_path and os.path.exists(...): os.unlink(...)      *)
Finally(r) ==
    IF r.fx.tempCreated /\ r.fx.tempLeft
    THEN [r EXCEPT !.fx.tempLeft = FALSE]
    ELSE r

Unchanged(resp, effects) ==
    Outcome(resp, points, chatLogs, nextUuid, now, effects)

(* ai_chat.py:239-283, the try block of chat_voice_upload.                 *)
chat_voice_try(op, upload, conversationId, saveToMemory, current_user, fx1, transFails, subReply2, faults) ==
    LET transcription == transcribe_audio(upload, transFails)
        chat_request == ChatTextRequest(transcription, conversationId,
                                        VoiceMetadata, saveToMemory)
        chat == chat_text_result(chat_request, current_user, subReply2, faults)
    IN IF upload = "read_raises"
       THEN TempCreated(Unchanged(
                send_error(op, 500, "Failed to process voice chat", NoBody), fx1))
       ELSE IF transcription = NoData \/ IsBlank(transcription)
       THEN TempCreated(Unchanged(
                send_error(op, 400, "Could not transcribe audio", NoBody), fx1))
       ELSE TempCreated([chat EXCEPT !.response.op = op])

chat_voice_upload_result(upload, conversationId, saveToMemory, current_user, subReply, transFails, subReply2, faults) ==
    LET op == "chat_voice_upload"
        user_id == UserIdOf(current_user)
        fx0 == [NoFx EXCEPT !.caller = user_id]
        subscription == verify_user_subscription(subReply)
        fx1 == [fx0 EXCEPT !.sub = 1, !.granted = subscription.ok]
    IN IF user_id = NoUser
       THEN Unchanged(send_error(op, 400, "Invalid user data", NoBody), fx0)
       ELSE IF ~subscription.ok
       THEN Unchanged(send_error(op, 403, "Subscription required for voice chat",
                                 [NoBody EXCEPT !.feature = "voice_chat"]), fx1)
       ELSE IF upload = "bad_type"
       THEN Unchanged(send_error(op, 400, "Invalid file type", NoBody), fx1)
       ELSE IF upload = "too_large"
       THEN Unchanged(send_error(op, 400, "File too large", NoBody), fx1)
       ELSE Finally(chat_voice_try(op, upload, conversationId, saveToMemory,
                                   current_user, fx1, transFails, subReply2,
                                   faults))

(* The answers of the collaborators a request gets to consult: the         *)
(* transcription provider only for a file that was read, the chat's own    *)
(* collaborators only for a transcription with text in it.                 *)
Transcribed(upload) == upload \in {"silence", "speech"}
TranscriptionFailures(upload) ==
    IF Transcribed(upload) THEN BOOLEAN ELSE {FALSE}
Heard(upload, transFails) == upload = "speech" /\ ~transFails
Granted == AuthReply(FALSE, 200, 200, TRUE, NoIdentity)

chat_voice_upload ==
    \E upload \in Uploads, conversationId \in {NoConv} \cup CallerConvIds,
       saveToMemory \in BOOLEAN, current_user \in Identities,
       subReply \in SubscriptionReplies :
    \E transFails \in TranscriptionFailures(upload) :
    \E subReply2 \in IF Heard(upload, transFails)
                      THEN SubscriptionReplies ELSE {Granted},
       faults \in IF Heard(upload, transFails) THEN FaultSets ELSE {{}} :
        /\ ChatBounded(saveToMemory)
        /\ Apply(chat_voice_upload_result(upload, conversationId, saveToMemory,
                     current_user, subReply, transFails, subReply2, faults))

(* voice_chat.py:81-142, the try block of upload_voice_message.            *)
upload_voice_try(op, upload, conversationId, saveToMemory, fx1, transFails, completionFails) ==
    LET transcription == transcribe_audio(upload, transFails)
        minted == conversationId = NoConv
        conversation_id == IF minted THEN nextUuid ELSE conversationId
        ai_response == chat_completion(transcription, <<>>, completionFails)
        memory_stored == saveToMemory
        fx2 == [fx1 EXCEPT !.conv = conversation_id, !.completion = 1,
                           !.failed = IF completionFails
                                      THEN {"completion"} ELSE {}]
        response_data == [NoBody EXCEPT
                             !.conversationId = conversation_id,
                             !.echo = transcription,
                             !.responseText = ai_response.text,
                             !.total = ai_response.token_usage.total_tokens,
                             !.memoryStored = memory_stored]
    IN IF upload = "read_raises"
       THEN TempCreated(Unchanged(
                send_error(op, 500, "Failed to process voice message", NoBody),
                fx1))
       ELSE IF transcription = NoData \/ IsBlank(transcription)
       THEN TempCreated(Unchanged(
                send_error(op, 400, "Could not transcribe audio", NoBody), fx1))
       ELSE TempCreated(Outcome(
                send_response(op, 200, "Voice message processed successfully",
                              response_data),
                points, chatLogs, IF minted THEN nextUuid + 1 ELSE nextUuid,
                now, fx2))

upload_voice_message_result(upload, conversationId, saveToMemory, current_user, subReply, transFails, completionFails) ==
    LET op == "upload_voice_message"
        user_id == UserIdOf(current_user)
        fx0 == [NoFx EXCEPT !.caller = user_id]
        subscription == verify_user_subscription(subReply)
        fx1 == [fx0 EXCEPT !.sub = 1, !.granted = subscription.ok]
    IN IF user_id = NoUser
       THEN Unchanged(send_error(op, 400, "Invalid user data", NoBody), fx0)
       ELSE IF ~subscription.ok
       THEN Unchanged(send_error(op, 403, "Subscription required for voice chat",
                                 [NoBody EXCEPT !.feature = "voice_chat"]), fx1)
       ELSE IF upload = "bad_type"
       THEN Unchanged(send_error(op, 400, "Invalid file type", NoBody), fx1)
       ELSE IF upload = "too_large"
       THEN Unchanged(send_error(op, 400, "File too large", NoBody), fx1)
       ELSE Finally(upload_voice_try(op, upload, conversationId, saveToMemory,
                                     fx1, transFails, completionFails))

upload_voice_message ==
    \E upload \in Uploads, conversationId \in {NoConv} \cup CallerConvIds,
       saveToMemory \in BOOLEAN, current_user \in Identities,
       subReply \in SubscriptionReplies :
    \E transFails \in TranscriptionFailures(upload) :
    \E completionFails \in IF Heard(upload, transFails)
                            THEN BOOLEAN ELSE {FALSE} :
        /\ ChatBounded(FALSE)
        /\ Apply(upload_voice_message_result(upload, conversationId,
                     saveToMemory, current_user, subReply, transFails,
                     completionFails))

(***************************************************************************)
(* app/routes/voice_chat.py: convert_text_to_speech.  The handler checks   *)
(* the voice_chat grant for whatever id the identity carries and answers   *)
(* with a placeholder.                                                     *)
(***************************************************************************)
convert_text_to_speech_result(text, current_user, subReply) ==
    LET op == "convert_text_to_speech"
        user_id == UserIdOf(current_user)
        subscription == verify_user_subscription(subReply)
        fx1 == [NoFx EXCEPT !.caller = user_id, !.sub = 1,
                            !.granted = subscription.ok]
    IN IF ~subscription.ok
       THEN Outcome(send_error(op, 403,
                               "Subscription required for text-to-speech",
                               NoBody),
                    points, chatLogs, nextUuid, now, fx1)
       ELSE Outcome(send_response(op, 200, "Text-to-speech feature coming soon",
                                  [NoBody EXCEPT !.echo = text]),
                    points, chatLogs, nextUuid, now, fx1)

convert_text_to_speech ==
    \E text \in Messages, current_user \in Identities,
       subReply \in SubscriptionReplies :
        Apply(convert_text_to_speech_result(text, current_user, subReply))

(***************************************************************************)
(* The two calls to the auth service on their own, with any answer of the  *)
(* service: a network error or unreadable body, any HTTP status, any body. *)
(* verify_token is get_current_user with a bearer header in hand,          *)
(* verify_subscription the entitlement gate of convert_text_to_speech.     *)
(***************************************************************************)
AuthReplies ==
    { AuthReply(err, http, statusCode, hasData, data) :
        err \in BOOLEAN, http \in {200, 401, 500}, statusCode \in {200, 403},
        hasData \in BOOLEAN, data \in Identities }

verify_token ==
    \E reply \in AuthReplies :
        LET dep == get_current_user("Bearer tok", reply) IN
        /\ response' =
              IF dep.ok
              THEN send_response("verify_jwt_token", 200, NoData, NoBody)
              ELSE http_exception_handler("verify_jwt_token", 401, dep.detail)
        /\ fx' = [NoFx EXCEPT !.auth = dep.verified,
                              !.caller = UserIdOf(dep.user),
                              !.request = <<"verify_jwt_token", reply>>]
        /\ UNCHANGED <<qdrant, points, chatLogs, nextUuid, now>>
        /\ UNCHANGED <<jobVars, qdrant>>

verify_subscription ==
    \E reply \in AuthReplies, current_user \in Identities :
        LET r == convert_text_to_speech_result("hi", current_user, reply) IN
        Apply([r EXCEPT !.fx.request = <<"verify_user_subscription", reply>>])

(***************************************************************************)
(* The route wiring: FastAPI resolves the dependency get_current_user      *)
(* before the endpoint function; an HTTPException raised there is answered *)
(* by http_exception_handler and the endpoint is not called.               *)
(***************************************************************************)
ProtectedRoutes ==
    {"chat_text", "chat_voice_upload", "get_user_conversations",
     "upload_voice_message", "convert_text_to_speech",
     "schedule_social_media_post", "schedule_email",
     "get_scheduled_posts", "get_scheduled_emails", "cancel_scheduled_post",
     "cancel_scheduled_email"}

HttpRequest ==
    \E route \in ProtectedRoutes, header \in Headers, reply \in JwtReplies :
        LET authorization == AuthorizationDependency(header)
            dep == get_current_user(authorization, reply)
            effects == [NoFx EXCEPT !.header = header # NoHeader,
                                    !.auth = dep.verified,
                                    !.caller = UserIdOf(dep.user)]
        IN /\ response' =
                 IF ~dep.ok THEN http_exception_handler(route, 401, dep.detail)
                 ELSE [http_exception_handler(route, 0, NoData) EXCEPT !.keys = {}]
           /\ fx' = [effects EXCEPT !.request = <<route, header, reply>>]
           /\ UNCHANGED <<qdrant, points, chatLogs, nextUuid, now>>
           /\ UNCHANGED <<jobVars, qdrant>>

NoResponse == send_response("init", 0, NoData, NoBody)

(* A step of the broker, a worker or the clock answers no request.         *)
Quiet == response' = NoResponse /\ fx' = NoFx

(***************************************************************************)
(* app/services/qdrant_service.py called from several processes at once:   *)
(* ensure_collection_exists, and store_embedding and delete_user_data,     *)
(* which begin with it.  One action per call to the Qdrant server.  The    *)
(* server refuses to create a collection that exists (409), which the      *)
(* client raises; no code deletes the collection.  In a call, `cause` is   *)
(* why it raised, `result` what it returned.  (The chat handlers above     *)
(* fold their ensure_collection_exists into the fault of the call it       *)
(* precedes.)                                                              *)
(***************************************************************************)
NumCallers == 2     \* processes calling QdrantService
MaxStored == 2      \* store_embedding calls that reach the upsert

Callers == 1..NumCallers
collection_name == "ai_memory"
QdrantOps == {"ensure_collection_exists", "store_embedding", "delete_user_data"}

IdleCall ==
    [pc |-> "idle", op |-> "none", user |-> NoUser, cause |-> "none",
     result |-> "none"]

Raised(c, cause) ==
    [qdrant EXCEPT !.calls[c].pc = "done", !.calls[c].cause = cause,
                   !.calls[c].result = "raised"]

Returned(q, c, result) ==
    [q EXCEPT !.calls[c].pc = "done", !.calls[c].result = result]

(* After ensure_collection_exists returned: the caller's own work.         *)
Ensured(q, c) ==
    IF q.calls[c].op = "ensure_collection_exists" THEN Returned(q, c, "None")
    ELSE [q EXCEPT !.calls[c].pc = "body"]

QdrantFrame ==
    /\ Quiet
    /\ UNCHANGED <<chatLogs, now>>
    /\ UNCHANGED jobVars

(* Lines 25-28: get_collections and the membership test.                   *)
EnsureObserve(c) ==
    \E op \in QdrantOps, user \in Users, raises \in BOOLEAN :
        LET q == [qdrant EXCEPT !.calls[c] =
                     [IdleCall EXCEPT !.op = op, !.user = user]]
        IN /\ qdrant.calls[c].pc \in {"idle", "done"}
           /\ qdrant' =
                 IF raises
                 THEN [q EXCEPT !.calls[c].pc = "done",
                                !.calls[c].cause = "provider_error",
                                !.calls[c].result = "raised"]
                 ELSE IF collection_name \in qdrant.collections
                 THEN Ensured(q, c)
                 ELSE [q EXCEPT !.calls[c].pc = "create"]
           /\ UNCHANGED <<points, nextUuid>>
           /\ QdrantFrame

(* Lines 29-39: create_collection; any exception is printed and re-raised. *)
EnsureCreate(c) ==
    \E raises \in BOOLEAN :
        /\ qdrant.calls[c].pc = "create"
        /\ qdrant' =
              IF collection_name \in qdrant.collections
              THEN Raised(c, "already_exists")
              ELSE IF raises THEN Raised(c, "provider_error")
              ELSE Ensured([qdrant EXCEPT
                               !.collections = @ \cup {collection_name}], c)
        /\ UNCHANGED <<points, nextUuid>>
        /\ QdrantFrame

(* store_embedding, lines 66-94: the point and the upsert.                 *)
StoreUpsert(c) ==
    \E raises \in BOOLEAN :
        LET point == BuildPoint(nextUuid, qdrant.calls[c].user, "hi",
                                ProviderVector("hi"), NoConv, "chat",
                                EmptyMeta, now)
        IN /\ qdrant.calls[c].pc = "body"
           /\ qdrant.calls[c].op = "store_embedding"
           /\ nextUuid < UuidBase + MaxStored
           /\ nextUuid' = nextUuid + 1
           /\ IF raises
              THEN /\ qdrant' = Raised(c, "provider_error")
                   /\ points' = points
              ELSE /\ qdrant' = Returned(qdrant, c, "point_id")
                   /\ points' = points \cup {point}
           /\ QdrantFrame

(* The points the delete's filter selects: payload userId = user_id.       *)
OwnedBy(user_id) == {p \in points : p.payload["userId"] = user_id}

(* delete_user_data, lines 244-259: the bulk delete inside try / except.   *)
DeleteIssue(c) ==
    \E raises \in BOOLEAN :
        /\ qdrant.calls[c].pc = "body"
        /\ qdrant.calls[c].op = "delete_user_data"
        /\ IF raises
           THEN /\ qdrant' = [Returned(qdrant, c, "False") EXCEPT
                                 !.calls[c].cause = "provider_error"]
                /\ points' = points
           ELSE /\ qdrant' = Returned(qdrant, c, "True")
                /\ points' = points \ OwnedBy(qdrant.calls[c].user)
        /\ UNCHANGED nextUuid
        /\ QdrantFrame

(***************************************************************************)
(* app/models/scheduled_post.py, scheduled_email.py: the job documents.    *)
(* Of a document the model keeps the fields the dispatcher and the routes  *)
(* read or write for the status lifecycle.                                 *)
(***************************************************************************)
MaxJobs == 1        \* documents in the two collections together
MaxSchedules == 2   \* schedule requests that reach the uuid4() call
MaxClock == 2       \* the clock of the scheduling model runs 0..MaxClock
NumWorkers == 2     \* worker processes
MaxMessages == 2    \* actor messages waiting in the broker for one job

Workers == 1..NumWorkers
Kinds == {"post", "email"}
ExcMessage == "db error"

SCHEDULED == "scheduled"
PROCESSING == "processing"
FAILED == "failed"
CANCELLED == "cancelled"
SuccessStatus(kind) == IF kind = "post" THEN "published" ELSE "sent"

(* lastAttemptAt: Optional[datetime] = None.                               *)
NoTime == 0 - 1

NewDocument(kind, schedule_id, user_id, scheduledAt) ==
    [kind |-> kind, scheduleId |-> schedule_id, userId |-> user_id,
     scheduledAt |-> scheduledAt, status |-> SCHEDULED, attempts |-> 0,
     lastAttemptAt |-> NoTime, errorMessage |-> NoData]

NoDocument == NewDocument("none", NoConv, NoUser, 0)

(* A validator that lets the present instant through: the fault C9 guards   *)
(* against.                                                                *)
validate_scheduled_at_strict(v, clock) == ~(v < clock)

(* @validator('scheduledAt') of the request models and of the documents.   *)
validate_scheduled_at(v, clock) == ~(v <= clock)

(***************************************************************************)
(* app/routes/schedule.py: schedule_social_media_post and schedule_email.  *)
(* The request model is validated before the endpoint function runs; the   *)
(* document model is validated when the endpoint constructs it, `elapsed`  *)
(* later.                                                                  *)
(***************************************************************************)
ScheduleFeature == "scheduling"

schedule_result(kind, op, scheduledAt, current_user, subReply, elapsed, insertRaises) ==
    LET user_id == UserIdOf(current_user)
        fx0 == [NoFx EXCEPT !.caller = user_id, !.scheduledAt = scheduledAt,
                            !.validatedAt = now]
        subscription == verify_user_subscription(subReply)
        fx1 == [fx0 EXCEPT !.sub = 1, !.granted = subscription.ok]
        schedule_id == nextUuid
        document == NewDocument(kind, schedule_id, user_id, scheduledAt)
        rejected(resp, effects) ==
            [response |-> resp, fx |-> effects, jobs |-> jobs,
             nextUuid |-> nextUuid, now |-> now]
    IN IF ~validate_scheduled_at(scheduledAt, now)
       THEN rejected(validation_exception_handler(op), fx0)
       ELSE IF user_id = NoUser
       THEN rejected(send_error(op, 400, "Invalid user data", NoBody), fx0)
       ELSE IF ~subscription.ok
       THEN rejected(send_error(op, 403, "Subscription required for scheduling",
                                [NoBody EXCEPT !.feature = ScheduleFeature]),
                     fx1)
       ELSE IF ~validate_scheduled_at(scheduledAt, now + elapsed)
       THEN [response |-> send_error(op, 400,
                                     "Scheduled time must be in the future",
                                     NoBody),
             fx |-> fx1, jobs |-> jobs, nextUuid |-> nextUuid + 1,
             now |-> now + elapsed]
       ELSE IF insertRaises
       THEN [response |-> send_error(op, 500, "Failed to schedule", NoBody),
             fx |-> [fx1 EXCEPT !.insert = 1], jobs |-> jobs,
             nextUuid |-> nextUuid + 1, now |-> now + elapsed]
       ELSE [response |-> send_response(op, 200, "scheduled successfully",
                              [NoBody EXCEPT !.scheduleId = schedule_id,
                                             !.jobStatus = "scheduled"]),
             fx |-> [fx1 EXCEPT !.insert = 1], jobs |-> Append(jobs, document),
             nextUuid |-> nextUuid + 1, now |-> now + elapsed]

ApplySchedule(r) ==
    /\ response' = r.response
    /\ fx' = r.fx
    /\ jobs' = r.jobs
    /\ nextUuid' = r.nextUuid
    /\ now' = r.now
    /\ UNCHANGED <<qdrant, points, chatLogs, notifications, queue, workers, cancel>>

ScheduleInputs(kind, op) ==
    \E scheduledAt \in 0..(MaxClock + 1), current_user \in Identities,
       subReply \in SubscriptionReplies, elapsed \in {0, 1},
       insertRaises \in BOOLEAN :
        /\ Len(jobs) < MaxJobs
        /\ nextUuid < UuidBase + MaxSchedules
        /\ now + elapsed <= MaxClock
        /\ ApplySchedule(schedule_result(kind, op, scheduledAt, current_user,
                                         subReply, elapsed, insertRaises))

schedule_social_media_post == ScheduleInputs("post", "schedule_social_media_post")

schedule_email == ScheduleInputs("email", "schedule_email")

(***************************************************************************)
(* cancel_scheduled_post / cancel_scheduled_email: find_one by scheduleId  *)
(* and userId, then save() of the document read, with status cancelled.    *)
(* The two database calls are separate awaits.                             *)
(***************************************************************************)
IdleCancel ==
    [pc |-> "idle", kind |-> "none", job |-> 0, doc |-> NoDocument,
     user |-> NoUser]

(* A lookup by scheduleId alone: the fault C11 guards against.             *)
FindOneAnyOwner(kind, schedule_id, user_id) ==
    {j \in 1..Len(jobs) : /\ jobs[j].kind = kind
                          /\ jobs[j].scheduleId = schedule_id}

FindOne(kind, schedule_id, user_id) ==
    {j \in 1..Len(jobs) : /\ jobs[j].kind = kind
                          /\ jobs[j].scheduleId = schedule_id
                          /\ jobs[j].userId = user_id}

CancelOp(kind) ==
    IF kind = "post" THEN "cancel_scheduled_post" ELSE "cancel_scheduled_email"

CancelFind ==
    \E kind \in Kinds, schedule_id \in UuidBase..nextUuid,
       current_user \in Identities, raises \in BOOLEAN :
        LET user_id == UserIdOf(current_user)
            found == FindOne(kind, schedule_id, user_id)
            fx0 == [NoFx EXCEPT !.caller = user_id, !.conv = schedule_id]
        IN /\ cancel.pc = "idle"
           /\ IF raises
              THEN /\ response' = send_error(CancelOp(kind), 500,
                                             "Failed to cancel", NoBody)
                   /\ fx' = [fx0 EXCEPT !.dbError = TRUE]
                   /\ cancel' = IdleCancel
              ELSE IF found = {}
              THEN /\ response' = send_error(CancelOp(kind), 404,
                                             "not found", NoBody)
                   /\ fx' = fx0
                   /\ cancel' = IdleCancel
              ELSE LET j == CHOOSE j \in found : TRUE IN
                   /\ Quiet
                   /\ cancel' = [pc |-> "save", kind |-> kind, job |-> j,
                                 doc |-> [jobs[j] EXCEPT !.status = CANCELLED],
                                 user |-> user_id]
           /\ UNCHANGED <<qdrant, points, chatLogs, nextUuid, now, jobs, notifications,
                          queue, workers>>

CancelSave ==
    \E raises \in BOOLEAN :
        /\ cancel.pc = "save"
        /\ IF raises
           THEN /\ response' = send_error(CancelOp(cancel.kind), 500,
                                          "Failed to cancel", NoBody)
                /\ jobs' = jobs
           ELSE /\ response' = send_response(CancelOp(cancel.kind), 200,
                                   "cancelled successfully",
                                   [NoBody EXCEPT
                                       !.scheduleId = cancel.doc.scheduleId,
                                       !.jobStatus = "cancelled"])
                /\ jobs' = [jobs EXCEPT ![cancel.job] = cancel.doc]
        /\ cancel' = IdleCancel
        /\ fx' = [NoFx EXCEPT !.caller = cancel.user,
                              !.conv = cancel.doc.scheduleId]
        /\ UNCHANGED <<qdrant, points, chatLogs, nextUuid, now, notifications, queue,
                       workers>>

(***************************************************************************)
(* app/utils/background_jobs.py.  queue_scheduled_post / _email send the   *)
(* actor message with the delay up to scheduled_at; nothing in the         *)
(* repository calls them (schedule.py:125-126, 213-214 are TODOs).  Every  *)
(* send_with_options is a message of its own: `id` tells the messages for  *)
(* one job apart.                                                          *)
(***************************************************************************)
Waiting(j) == {m \in queue : m.job = j}

queue_scheduled_job ==
    \E j \in 1..Len(jobs) :
        LET delay == jobs[j].scheduledAt - now IN
        /\ Cardinality(Waiting(j)) < MaxMessages
        /\ queue' = IF delay > 0
                    THEN queue \cup {[kind |-> jobs[j].kind, job |-> j,
                                      eta |-> jobs[j].scheduledAt,
                                      id |-> Cardinality(Waiting(j)) + 1]}
                    ELSE queue
        /\ Quiet
        /\ UNCHANGED <<qdrant, points, chatLogs, nextUuid, now, jobs, notifications,
                       workers, cancel>>

(***************************************************************************)
(* A run of _publish_social_post_async / _send_scheduled_email_async, one  *)
(* action per await.  `doc` is the worker's in-memory document, `exc` the  *)
(* exception the except clause handles, `notified` whether this run        *)
(* inserted a success notification, `saved` the statuses the run has       *)
(* saved, in order, `outcome` the status the run saved last.               *)
(***************************************************************************)
DeliverySuccess == TRUE

IdleWorker ==
    [pc |-> "idle", kind |-> "none", job |-> 0, doc |-> NoDocument,
     exc |-> NoData, notified |-> FALSE, delivered |-> FALSE,
     saved |-> <<>>, outcome |-> NoData]

Others == <<points, chatLogs, nextUuid, now, cancel, qdrant>>

Lookup(kind, j) ==
    IF j \in 1..Len(jobs) /\ jobs[j].kind = kind THEN jobs[j] ELSE NoDocument

Raise(w, message) ==
    [workers EXCEPT ![w].pc = "except_get", ![w].exc = message]

Finish(w, outcome) ==
    [workers EXCEPT ![w].pc = "done", ![w].outcome = outcome]

Saved(w, outcome) ==
    [workers EXCEPT ![w].pc = "done", ![w].outcome = outcome,
                    ![w].saved = Append(@, outcome)]

(* The actor starts when the broker delivers the message, at its eta.      *)
WorkerStart(w) ==
    \E m \in queue :
        /\ workers[w].pc \in {"idle", "done"}
        /\ now >= m.eta
        /\ queue' = queue \ {m}
        /\ workers' = [workers EXCEPT ![w] =
                          [IdleWorker EXCEPT !.pc = "get", !.kind = m.kind,
                                             !.job = m.job]]
        /\ UNCHANGED <<jobs, notifications>>
        /\ UNCHANGED Others
        /\ Quiet

(* A run that sets `processing` without counting the attempt: the fault    *)
(* C21 guards against.                                                     *)
WorkerGetNoAttempt(w) ==
    LET post == Lookup(workers[w].kind, workers[w].job) IN
    /\ workers[w].pc = "get"
    /\ workers' =
          IF post = NoDocument THEN Finish(w, "not_found")
          ELSE IF post.status # SCHEDULED THEN Finish(w, "skipped")
          ELSE [workers EXCEPT
                   ![w].pc = "save_processing",
                   ![w].doc = [post EXCEPT !.status = PROCESSING]]
    /\ UNCHANGED <<jobs, notifications, queue>>
    /\ UNCHANGED Others
    /\ Quiet

(* Lines 61-73: get, the two early returns, the in-memory update.          *)
WorkerGet(w) ==
    \E raises \in BOOLEAN :
        LET post == Lookup(workers[w].kind, workers[w].job) IN
        /\ workers[w].pc = "get"
        /\ workers' =
              IF raises THEN Raise(w, ExcMessage)
              ELSE IF post = NoDocument THEN Finish(w, "not_found")
              ELSE IF post.status # SCHEDULED THEN Finish(w, "skipped")
              ELSE [workers EXCEPT
                       ![w].pc = "save_processing",
                       ![w].doc = [post EXCEPT !.status = PROCESSING,
                                               !.attempts = post.attempts + 1,
                                               !.lastAttemptAt = now]]
        /\ UNCHANGED <<jobs, notifications, queue>>
        /\ UNCHANGED Others
        /\ Quiet

(* A run that goes on to the delivery without persisting `processing`: the *)
(* fault C6 guards against.                                                *)
WorkerSkipProcessing(w) ==
    /\ workers[w].pc = "save_processing"
    /\ workers' = [workers EXCEPT ![w].pc = "deliver"]
    /\ UNCHANGED <<jobs, notifications, queue>>
    /\ UNCHANGED Others
    /\ Quiet

(* Line 74: await post.save().                                             *)
WorkerSaveProcessing(w) ==
    \E raises \in BOOLEAN :
        /\ workers[w].pc = "save_processing"
        /\ IF raises
           THEN /\ workers' = Raise(w, ExcMessage)
                /\ jobs' = jobs
           ELSE /\ workers' = [workers EXCEPT
                                  ![w].pc = "deliver",
                                  ![w].saved = Append(@, workers[w].doc.status)]
                /\ jobs' = [jobs EXCEPT ![workers[w].job] = workers[w].doc]
        /\ UNCHANGED <<notifications, queue>>
        /\ UNCHANGED Others
        /\ Quiet

(* Lines 80-86 / 100-102: the simulated delivery and the in-memory result. *)
WorkerDeliver(w) ==
    LET success == DeliverySuccess
        post == workers[w].doc
    IN /\ workers[w].pc = "deliver"
       /\ workers' = [workers EXCEPT
             ![w].pc = "notify",
             ![w].delivered = success,
             ![w].doc = IF success
                        THEN [post EXCEPT !.status = SuccessStatus(post.kind)]
                        ELSE [post EXCEPT
                                 !.status = FAILED,
                                 !.errorMessage = "Failed to deliver"]]
       /\ UNCHANGED <<jobs, notifications, queue>>
       /\ UNCHANGED Others
       /\ Quiet

(* The worker process dies during the delivery call (lines 80, 163): no    *)
(* except clause runs and nothing more is written by this run.             *)
WorkerCrash(w) ==
    /\ workers[w].pc = "deliver"
    /\ workers' = Finish(w, "crashed")
    /\ UNCHANGED <<jobs, notifications, queue>>
    /\ UNCHANGED Others
    /\ Quiet

Notification(post, job, type) ==
    [userId |-> post.userId, type |-> type, relatedEntityId |-> job,
     relatedEntityType |-> post.kind]

NotificationsOf(job, type) ==
    {i \in 1..Len(notifications) :
        /\ notifications[i].relatedEntityId = job
        /\ notifications[i].type = type}

(* An insert that is skipped when the job already has a notification of    *)
(* the type: the deduplication C22 says the code does not have.            *)
WorkerNotifyOnce(w) ==
    LET type == IF workers[w].delivered THEN "success" ELSE "error" IN
    /\ workers[w].pc = "notify"
    /\ workers' = [workers EXCEPT ![w].pc = "save_final",
                                  ![w].notified = (type = "success")]
    /\ notifications' =
          IF NotificationsOf(workers[w].job, type) # {} THEN notifications
          ELSE Append(notifications,
                      Notification(workers[w].doc, workers[w].job, type))
    /\ UNCHANGED <<jobs, queue>>
    /\ UNCHANGED Others
    /\ Quiet

(* Lines 89-98 / 105-114: await notification.insert().                     *)
WorkerNotify(w) ==
    \E raises \in BOOLEAN :
        LET type == IF workers[w].delivered THEN "success" ELSE "error" IN
        /\ workers[w].pc = "notify"
        /\ IF raises
           THEN /\ workers' = Raise(w, ExcMessage)
                /\ notifications' = notifications
           ELSE /\ workers' = [workers EXCEPT
                                  ![w].pc = "save_final",
                                  ![w].notified = (type = "success")]
                /\ notifications' =
                      Append(notifications,
                             Notification(workers[w].doc, workers[w].job, type))
        /\ UNCHANGED <<jobs, queue>>
        /\ UNCHANGED Others
        /\ Quiet

(* Lines 116-117: the final await post.save().                             *)
WorkerSaveFinal(w) ==
    \E raises \in BOOLEAN :
        /\ workers[w].pc = "save_final"
        /\ IF raises
           THEN /\ workers' = Raise(w, ExcMessage)
                /\ jobs' = jobs
           ELSE /\ workers' = Saved(w, workers[w].doc.status)
                /\ jobs' = [jobs EXCEPT ![workers[w].job] = workers[w].doc]
        /\ UNCHANGED <<notifications, queue>>
        /\ UNCHANGED Others
        /\ Quiet

(* Lines 119-127: the except clause reads the document again.              *)
WorkerExceptGet(w) ==
    \E raises \in BOOLEAN :
        LET post == Lookup(workers[w].kind, workers[w].job) IN
        /\ workers[w].pc = "except_get"
        /\ workers' =
              IF raises THEN Finish(w, "unrecorded")
              ELSE IF post = NoDocument THEN Finish(w, "not_found")
              ELSE [workers EXCEPT
                       ![w].pc = "except_save",
                       ![w].doc = [post EXCEPT
                                      !.status = FAILED,
                                      !.errorMessage = workers[w].exc]]
        /\ UNCHANGED <<jobs, notifications, queue>>
        /\ UNCHANGED Others
        /\ Quiet

(* Lines 128-131: await post.save() inside the except clause.              *)
WorkerExceptSave(w) ==
    \E raises \in BOOLEAN :
        /\ workers[w].pc = "except_save"
        /\ IF raises
           THEN /\ workers' = Finish(w, "unrecorded")
                /\ jobs' = jobs
           ELSE /\ workers' = Saved(w, FAILED)
                /\ jobs' = [jobs EXCEPT ![workers[w].job] = workers[w].doc]
        /\ UNCHANGED <<notifications, queue>>
        /\ UNCHANGED Others
        /\ Quiet

WorkerStep(w) ==
    \/ WorkerGet(w)
    \/ WorkerSaveProcessing(w)
    \/ WorkerDeliver(w)
    \/ WorkerCrash(w)
    \/ WorkerNotify(w)
    \/ WorkerSaveFinal(w)
    \/ WorkerExceptGet(w)
    \/ WorkerExceptSave(w)

Tick ==
    /\ now < MaxClock
    /\ now' = now + 1
    /\ Quiet
    /\ UNCHANGED <<qdrant, points, chatLogs, nextUuid>>
    /\ UNCHANGED <<jobVars, qdrant>>

Init ==
    /\ points = {}
    /\ chatLogs = <<>>
    /\ nextUuid = UuidBase
    /\ now = 0
    /\ response = NoResponse
    /\ fx = NoFx
    /\ jobs = <<>>
    /\ notifications = <<>>
    /\ queue = {}
    /\ workers = [w \in Workers |-> IdleWorker]
    /\ cancel = IdleCancel
    /\ qdrant = [collections |-> {}, calls |-> [c \in Callers |-> IdleCall]]

(* The chat orchestrator.                                                  *)
Next ==
    \/ chat_text
    \/ convert_text_to_speech

Spec == Init /\ [][Next]_vars

(* The chat orchestrator and the conversations summary.                    *)
ConversationsNext ==
    \/ chat_text
    \/ get_user_conversations

ConversationsSpec == Init /\ [][ConversationsNext]_vars

(* The route wiring of the protected routes.                               *)
HttpNext == HttpRequest

HttpSpec == Init /\ [][HttpNext]_vars

(* The context assembly on its own.                                        *)
AssembleNext == assemble_context

AssembleSpec == Init /\ [][AssembleNext]_vars

(* The scheduling routes, the broker, the workers and the clock.           *)
(* The response of a request is on its way to the client until Respond.    *)
Respond ==
    /\ response # NoResponse
    /\ Quiet
    /\ UNCHANGED <<qdrant, points, chatLogs, nextUuid, now>>
    /\ UNCHANGED <<jobVars, qdrant>>

Ready == response = NoResponse

(* The calls to the auth service.                                          *)
AuthNext ==
    \/ verify_token
    \/ verify_subscription

AuthSpec == Init /\ [][AuthNext]_vars

(* QdrantService called from concurrent processes.                        *)
QdrantNext ==
    \E c \in Callers :
        \/ EnsureObserve(c)
        \/ EnsureCreate(c)
        \/ StoreUpsert(c)
        \/ DeleteIssue(c)

QdrantSpec == Init /\ [][QdrantNext]_vars

(* The voice uploads.                                                      *)
VoiceNext ==
    \/ Ready /\ chat_voice_upload
    \/ Ready /\ upload_voice_message
    \/ Respond

VoiceSpec == Init /\ [][VoiceNext]_vars

JobsNext ==
    \/ Ready /\ schedule_social_media_post
    \/ Ready /\ schedule_email
    \/ Ready /\ CancelFind
    \/ Ready /\ CancelSave
    \/ Ready /\ queue_scheduled_job
    \/ Ready /\ \E w \in Workers : WorkerStart(w)
    \/ Ready /\ \E w \in Workers : WorkerStep(w)
    \/ Ready /\ Tick
    \/ Respond

JobsSpec == Init /\ [][JobsNext]_vars

(***************************************************************************)
(* The claims.                                                             *)
(***************************************************************************)

(* C1: whatever chat requests came before, every point a similarity search *)
(* or a conversation scroll returns carries the owner id (payload userId)  *)
(* the query was issued for, also when a point of another owner has the    *)
(* same vector and the same conversationId.                                *)
C1_RetrievalStaysWithOwner ==
    /\ \A i \in DOMAIN fx.searchRes :
          fx.searchRes[i].payload["userId"] = fx.caller
    /\ \A i \in DOMAIN fx.scrollRes :
          fx.scrollRes[i].payload["userId"] = fx.caller

(* C1's case: search and scroll ran for the caller, the scroll returned    *)
(* something, and the store already held a point of another owner with the *)
(* query's vector and conversationId.                                      *)
C1_Witness ==
    /\ fx.search = 1
    /\ fx.scroll = 1
    /\ fx.scrollRes # <<>>
    /\ \E p \in points \ fx.newPoints :
          /\ p.payload["userId"] # fx.caller
          /\ p.vector = ProviderVector("hi")
          /\ p.payload["conversationId"] = fx.conv

(* C2: a chat_text request that stores its memory writes exactly two new   *)
(* points, one user_message and one ai_response, and whatever the          *)
(* request's metadata each of them carries the caller's id as userId and   *)
(* the resolved conversation id as conversationId.                         *)
C2_TwoPointsTaggedWithCaller ==
    (response.op = "chat_text" /\ response.status = 200
        /\ response.data.memoryStored)
    => /\ Cardinality(fx.newPoints) = 2
       /\ {p.payload["sourceType"] : p \in fx.newPoints}
             = {"user_message", "ai_response"}
       /\ \A p \in fx.newPoints :
             /\ p.payload["userId"] = fx.caller
             /\ p.payload["conversationId"] = fx.conv

(* C3: a request to a protected route without an Authorization header is   *)
(* answered 401 in the envelope {statusCode: 401, message, data}, and no   *)
(* subscription check, embedding, vector-store access, completion or       *)
(* database write happens for it.                                          *)
C3_MissingHeader401Envelope ==
    (fx.request # <<>> /\ fx.request[2] = NoHeader)
    => /\ response.status = 401
       /\ response.keys = {"statusCode", "message", "data"}
       /\ response.statusCode = 401
       /\ fx.sub = 0 /\ fx.embed = 0 /\ fx.search = 0 /\ fx.scroll = 0
       /\ fx.completion = 0 /\ fx.store = 0 /\ fx.insert = 0
       /\ fx.newPoints = {}

(* C4: when the subscription check returns no grant the handler answers    *)
(* 403 with data.feature naming the feature it asked for, and makes no     *)
(* embedding, vector-store, completion or database call.                   *)
C4_NoGrant403NamesFeature ==
    (fx.sub = 1 /\ ~fx.granted)
    => /\ response.status = 403
       /\ response.data.feature =
             CASE response.op = "chat_text" -> "ai_chat"
               [] response.op = "convert_text_to_speech" -> "voice_chat"
               [] OTHER -> "scheduling"
       /\ fx.embed = 0 /\ fx.search = 0 /\ fx.scroll = 0
       /\ fx.completion = 0 /\ fx.store = 0 /\ fx.insert = 0
       /\ fx.newPoints = {}

(* C5: POST /api/v1/ai/chat/text with a bearer token the auth service      *)
(* verifies is answered 200 (with a fresh conversationId, the echoed       *)
(* message, the completion text and memoryStored = true).                  *)
C5_VerifiedBearerChat200 ==
    (fx.request # <<>> /\ fx.request[1] = "chat_text"
        /\ fx.request[2] = "Bearer tok"
        /\ verify_jwt_token(fx.request[3]).ok)
    => response.status = 200

(* C6: no step sets a job that has left `scheduled` back to `scheduled`,   *)
(* and a run that ends with the job published / sent has saved            *)
(* `processing` first and the success status after it.                     *)
C6_Lifecycle ==
    [][/\ \A j \in 1..Len(jobs) :
            jobs[j].status # SCHEDULED => jobs'[j].status # SCHEDULED
       /\ \A w \in Workers :
            workers'[w].outcome \in {"published", "sent"}
            => /\ workers'[w].saved = <<PROCESSING, workers'[w].outcome>>
               /\ workers'[w].outcome = SuccessStatus(workers'[w].kind)]_vars

(* C6's case: a run has ended with the job delivered.                      *)
C6_Witness ==
    \E w \in Workers :
        /\ workers[w].pc = "done"
        /\ workers[w].outcome \in {"published", "sent"}
        /\ jobs[workers[w].job].status = workers[w].outcome

(* C7: a job becomes `cancelled` only from `scheduled`; a cancel request   *)
(* for a job that is processing, published / sent or failed leaves its     *)
(* status alone.                                                           *)
C7_CancelOnlyWhileScheduled ==
    [][\A j \in 1..Len(jobs) :
          (jobs'[j].status = CANCELLED /\ jobs[j].status # CANCELLED)
          => jobs[j].status = SCHEDULED]_vars

(* C8: a dispatcher run that ends with the job `failed` saved a non-empty  *)
(* errorMessage and inserted no success notification.                      *)
C8_FailedRunHasNoSuccessNotification ==
    \A w \in Workers :
        (workers[w].pc = "done" /\ workers[w].outcome = FAILED)
        => /\ workers[w].doc.errorMessage # NoData
           /\ ~workers[w].notified

(* C9: a schedule request whose scheduledAt is at or before the clock is   *)
(* answered with the validation error and the stored jobs stay as they     *)
(* were.                                                                   *)
C9_PastScheduleRejected ==
    [][(/\ response'.op \in {"schedule_social_media_post", "schedule_email"}
        /\ fx'.scheduledAt <= fx'.validatedAt)
       => /\ response'.status = 422
          /\ jobs' = jobs]_vars

(* C9's case: a request for the present instant was rejected.              *)
C9_Witness ==
    /\ response.op \in {"schedule_social_media_post", "schedule_email"}
    /\ fx.scheduledAt = fx.validatedAt
    /\ response.status = 422
    /\ now > 0

(* C10: a job the schedule routes accepted is in the broker's queue, due   *)
(* at its scheduledAt.                                                     *)
C10_AcceptedJobIsEnqueued ==
    (/\ response.op \in {"schedule_social_media_post", "schedule_email"}
     /\ response.status = 200)
    => \E m \in queue :
          /\ jobs[m.job].scheduleId = response.data.scheduleId
          /\ m.eta = jobs[m.job].scheduledAt

(* C11: a cancel request whose scheduleId matches no job of the caller     *)
(* (unknown id, or a job of another owner) is answered 404 when the lookup *)
(* answers, and leaves the jobs as they were; and a cancel handler only    *)
(* ever writes a job whose userId is the caller's.                         *)
C11_ForeignCancelNotFound ==
    [][/\ \A kind \in Kinds :
            (/\ response'.op = CancelOp(kind)
             /\ ~fx'.dbError
             /\ \A j \in 1..Len(jobs) :
                   ~(/\ jobs[j].kind = kind
                     /\ jobs[j].scheduleId = fx'.conv
                     /\ jobs[j].userId = fx'.caller))
            => /\ response'.status = 404
               /\ jobs' = jobs
       /\ (cancel.pc = "save" /\ cancel'.pc = "idle")
            => \A j \in 1..Len(jobs) :
                  jobs'[j] # jobs[j] => jobs[j].userId = cancel.user]_vars

(* C11's case: a caller named the scheduleId of another owner's job and    *)
(* was answered 404.                                                       *)
C11_Witness ==
    /\ response.op \in {"cancel_scheduled_post", "cancel_scheduled_email"}
    /\ response.status = 404
    /\ fx.caller # NoUser
    /\ \E j \in 1..Len(jobs) :
          /\ jobs[j].scheduleId = fx.conv
          /\ CancelOp(jobs[j].kind) = response.op
          /\ jobs[j].userId # fx.caller

(* C12: when the embedding of the incoming message fails, chat_text still  *)
(* reaches the completion call and answers 200 with the completion text.   *)
C12_EmbeddingFailureProceeds ==
    (response.op = "chat_text" /\ "embed" \in fx.failed)
    => /\ response.status = 200
       /\ fx.completion = 1
       /\ response.data.responseText = CompletionText

(* C13: when the completion provider fails the request is answered without *)
(* a 5xx, with the apology text and a token usage of zero.                 *)
C13_CompletionFailureZeroTokens ==
    (response.op = "chat_text" /\ fx.failed = {"completion"})
    => /\ response.status < 500
       /\ response.data.responseText = ApologyText
       /\ response.data.total = 0

(* C14: a failing memory write or chat-log write does not abort chat_text: *)
(* the answer is 200 with the completion text, and a failed memory write   *)
(* shows as memoryStored = false.                                          *)
C14_PersistenceFailureNotAbort ==
    (/\ response.op = "chat_text"
     /\ fx.failed # {}
     /\ fx.failed \subseteq {"store_user", "store_ai", "insert"})
    => /\ response.status = 200
       /\ response.data.responseText = CompletionText
       /\ (fx.failed \cap {"store_user", "store_ai"} # {}
              => ~response.data.memoryStored)

(* C15: the recent-conversation block of the context holds at most 5       *)
(* turns, they are the most recent turns of the conversation, and they are *)
(* in chronological order, oldest first.                                   *)
C15_RecentBlockChronological ==
    LET recent == fx.recent
        stamp(i) == recent[i].payload["createdAt"]
        turns == {p \in points \ fx.newPoints :
                     /\ p.payload["userId"] = fx.caller
                     /\ p.payload["conversationId"] = fx.conv}
    IN /\ Len(recent) <= 5
       /\ \A i, j \in 1..Len(recent) : i < j => stamp(i) <= stamp(j)
       /\ \A p \in turns :
             (\A i \in 1..Len(recent) : recent[i].id # p.id)
             => \A i \in 1..Len(recent) : p.payload["createdAt"] <= stamp(i)

(* C16: the assembled context is empty when there are neither similar hits *)
(* nor recent turns; it carries the relevant-context label exactly when    *)
(* there are hits and the recent-conversation label exactly when there are *)
(* recent turns.                                                           *)
C16_ContextLabels ==
    LET labels == {fx.context[i] : i \in 1..Len(fx.context)}
                     \cap {RelevantLabel, RecentLabel}
    IN /\ (fx.searchRes = <<>> /\ fx.scrollRes = <<>>) => fx.context = <<>>
       /\ RelevantLabel \in labels <=> fx.searchRes # <<>>
       /\ RecentLabel \in labels <=> fx.scrollRes # <<>>

(* C16's case: the assembly ran on hits without recent turns.              *)
C16_Witness ==
    /\ response.op = "assemble_context"
    /\ fx.searchRes # <<>>
    /\ fx.scrollRes = <<>>
    /\ fx.context[1] = RelevantLabel

C18_MemoryStoredIsTrue ==
    (response.status = 200
        /\ response.op \in {"chat_text", "chat_voice_upload",
                             "upload_voice_message"})
    => /\ response.data.memoryStored
            => /\ Cardinality(fx.newPoints) = 2
               /\ fx.newPoints \subseteq points
       /\ fx.newPoints = {} => ~response.data.memoryStored

(* C19: verify_jwt_token and verify_user_subscription hand back the data   *)
(* of the answer only for HTTP 200 with body statusCode 200 and non-empty  *)
(* data; for anything else, a network error included, they return None, so *)
(* the request is denied (401 for the token, 403 for the entitlement).     *)
C19_AuthServiceFailsClosed ==
    (fx.request # <<>>
        /\ fx.request[1] \in {"verify_jwt_token", "verify_user_subscription"})
    => LET reply == fx.request[2]
           good == /\ ~reply.err
                   /\ reply.http = 200
                   /\ reply.statusCode = 200
                   /\ reply.hasData
       IN IF fx.request[1] = "verify_jwt_token"
          THEN /\ good => /\ response.status = 200
                          /\ fx.caller = UserIdOf(reply.data)
               /\ ~good => response.status = 401
          ELSE /\ fx.granted <=> good
               /\ ~good => response.status = 403

(* C19's case: the entitlement service could not be reached and the        *)
(* request was denied.                                                     *)
C19_Witness ==
    /\ fx.request # <<>>
    /\ fx.request[1] = "verify_user_subscription"
    /\ fx.request[2].err
    /\ response.status = 403

(* C20: a dispatcher run that leaves its job published/sent has created a  *)
(* success notification for that job, and a run that leaves its job failed *)
(* has created an error notification for that job.                         *)
C20_RunOutcomeIsNotified ==
    \A w \in Workers :
        LET Created(type) ==
                \E i \in 1..Len(notifications) :
                    /\ notifications[i].relatedEntityId = workers[w].job
                    /\ notifications[i].type = type
        IN /\ (workers[w].pc = "done"
                 /\ workers[w].outcome = SuccessStatus(workers[w].kind))
              => Created("success")
           /\ (workers[w].pc = "done" /\ workers[w].outcome = FAILED)
              => Created("error")

C22_ProcessingIsNoMutex ==
    \A j \in 1..Len(jobs) :
        Cardinality(NotificationsOf(j, "success"))
            >= Cardinality({w \in Workers : /\ workers[w].job = j
                                            /\ workers[w].notified})

(* C22's case: two workers both saved processing for the same job, both    *)
(* delivered, and the job has two success notifications.                   *)
C22_Witness ==
    \E w1, w2 \in Workers :
        /\ w1 # w2
        /\ workers[w1].job = workers[w2].job
        /\ \A w \in {w1, w2} :
              /\ workers[w].delivered
              /\ workers[w].notified
              /\ workers[w].saved[1] = PROCESSING
        /\ Cardinality(NotificationsOf(workers[w1].job, "success")) = 2

(* C27: in every state a job that is processing, published / sent or       *)
(* failed has attempts >= 1 and a lastAttemptAt, and no step takes a job   *)
(* from scheduled straight to failed.                                      *)
C27_AttemptRecordedOnceLeftScheduled ==
    /\ [](\A j \in 1..Len(jobs) :
            jobs[j].status \in {PROCESSING, "published", "sent", FAILED}
            => /\ jobs[j].attempts >= 1
               /\ jobs[j].lastAttemptAt # NoTime)
    /\ [][\A j \in 1..Len(jobs) :
            jobs[j].status = SCHEDULED => jobs'[j].status # FAILED]_vars

(* C28: under interleaved cancel requests and dispatcher runs no step      *)
(* stores processing or published / sent over a cancelled job, and no step *)
(* stores cancelled over a published / sent or failed job.                 *)
C28_TerminalStatusesAbsorbing ==
    [][\A j \in 1..Len(jobs) :
          /\ jobs[j].status = CANCELLED
             => jobs'[j].status \notin {PROCESSING, "published", "sent"}
          /\ jobs[j].status \in {"published", "sent", FAILED}
             => jobs'[j].status # CANCELLED]_vars

(* C29: no increment is lost: a job that was not cancelled has counted at  *)
(* least the runs on it that saved processing and went on to the delivery. *)
C29_NoAttemptLost ==
    \A j \in 1..Len(jobs) :
        jobs[j].status # CANCELLED
        => jobs[j].attempts
              >= Cardinality({w \in Workers :
                                 /\ workers[w].job = j
                                 /\ workers[w].saved # <<>>
                                 /\ workers[w].saved[1] = PROCESSING})

(* C23: a caller of ensure_collection_exists that loses the race for the   *)
(* creation (its create is answered "already exists") still completes      *)
(* successfully, and the collection exists once.                           *)
C23_EnsureCollectionRaceTolerated ==
    \A c \in Callers :
        qdrant.calls[c].cause = "already_exists"
        => /\ qdrant.calls[c].result # "raised"
           /\ qdrant.collections = {collection_name}

(* C24: delete_user_data never raises; it returns False when the provider  *)
(* fails at any point of the call, True only with the step that deletes    *)
(* the owner's points, and no step of it removes another owner's point.    *)
C24_DeleteUserDataNeverRaises ==
    [][\A c \in Callers :
          (qdrant'.calls[c].op = "delete_user_data"
              /\ qdrant'.calls[c].pc = "done" /\ qdrant.calls[c].pc # "done")
          => LET call == qdrant'.calls[c] IN
             /\ call.result \in {"True", "False"}
             /\ call.cause = "provider_error" => call.result = "False"
             /\ call.result = "True" => points' = points \ OwnedBy(call.user)
             /\ call.result = "False" => points' = points
             /\ \A p \in points :
                   p.payload["userId"] # call.user => p \in points']_vars

(* C25: a chat_text request with saveToMemory = false neither searches nor *)
(* scrolls nor writes the vector store, and hands the completion an empty  *)
(* context.                                                                *)
C25_NoMemoryNoVectorStore ==
    (response.op = "chat_text" /\ response.status = 200
        /\ ~response.data.memoryStored)
    => /\ fx.search = 0
       /\ fx.scroll = 0
       /\ fx.store = 0
       /\ fx.newPoints = {}
       /\ fx.context = <<>>

(* C26: a chat_text request that ends with 200 appends exactly one log     *)
(* record, a request that ends with anything else (a rejection for the     *)
(* identity or the entitlement included) appends none, and every record    *)
(* already in the log stays where and as it was.                           *)
C26_ChatLogAppendOnly ==
    [][/\ SubSeq(chatLogs', 1, Len(chatLogs)) = chatLogs
       /\ (response'.op = "chat_text" /\ response'.status = 200)
          => /\ Len(chatLogs') = Len(chatLogs) + 1
             /\ chatLogs'[Len(chatLogs')].userId = fx'.caller
             /\ chatLogs'[Len(chatLogs')].conversationId = fx'.conv
       /\ ~(response'.op = "chat_text" /\ response'.status = 200)
          => chatLogs' = chatLogs]_vars

(* C26's case: a second chat completed with 200 and its record was        *)
(* appended behind an earlier one.                                         *)
C26_Witness ==
    /\ response.op = "chat_text"
    /\ response.status = 200
    /\ Len(chatLogs) = 2
    /\ chatLogs[1].createdAt < chatLogs[2].createdAt

(* C30: in the conversations summary every conversation's totalTokens is   *)
(* the sum of tokenUsage.total_tokens over its fetched turns, its          *)
(* messageCount the number of those turns, and its lastMessage and         *)
(* lastActivity those of its most recent turn.                             *)
C30_ConversationTotals ==
    (response.op = "get_user_conversations" /\ response.status = 200)
    => LET fetched == FindLogs(fx.caller, fx.request[2])
           list == response.data.conversations
           TurnsOf(c) == {i \in 1..Len(fetched) :
                            fetched[i].conversationId = c.conversationId}
           RECURSIVE Total(_)
           Total(T) ==
               IF T = {} THEN 0
               ELSE LET i == CHOOSE i \in T : TRUE
                    IN fetched[i].tokenUsage.total_tokens + Total(T \ {i})
       IN /\ {list[k].conversationId : k \in 1..Len(list)}
                = {fetched[i].conversationId : i \in 1..Len(fetched)}
          /\ \A k \in 1..Len(list) :
                LET turns == TurnsOf(list[k])
                    newest == CHOOSE i \in turns : \A j \in turns :
                                 fetched[i].createdAt >= fetched[j].createdAt
                IN /\ list[k].totalTokens = Total(turns)
                   /\ list[k].messageCount = Cardinality(turns)
                   /\ list[k].lastMessage = fetched[newest].userMessage
                   /\ list[k].lastActivity = fetched[newest].createdAt

====
